---- MODULE Spec2Model ----
(***************************************************************************)
(* Model of telegram_image_bot.py: the SQLite membership store (class DB), *)
(* the completion call (query_openai_with_image and the inline call of     *)
(* text_handler) and the update handlers registered in main().             *)
(*                                                                         *)
(* Spec: one action is one handler run.  The host library dispatches       *)
(* updates one at a time and every sqlite3 call is synchronous, so a       *)
(* handler run is one step.  The environment supplies, per run: the        *)
(* caller, the command arguments or message text, which storage call       *)
(* raises, whether Telegram accepts what is sent, and what the completion  *)
(* endpoint answers.                                                       *)
(* RelaySpec: text_handler and photo_handler with the await on the POST as *)
(* a step of its own, the request timer running.                           *)
(* StoreSpec: add_user/remove_user calls on separate connections,          *)
(* statement by statement.                                                 *)
(***************************************************************************)
EXTENDS Integers, Sequences, FiniteSets, TLC

VARIABLES
    users,    \* the rows of table users
    logs,     \* the rows of table logs, in id order
    files,    \* the files in /tmp/telegram_bot_images, by file_unique_id
    now,      \* the value of CURRENT_TIMESTAMP
    addSeq,   \* history: the telegram_ids of the users rows, oldest insert first
    lastOp,   \* history: per identity, the last committed add_user/remove_user
    ev,       \* the update being handled and what its handler did; NoEvent
              \* while the dispatcher waits for the next update
    prev,     \* history: users, logs and files as the handler found them
    tx,       \* the open sqlite3 connections of add_user/remove_user calls
              \* running side by side, and who holds the write lock
    photo     \* the photo_handler runs in progress side by side, and what
              \* the temporary files hold

vars == <<users, logs, files, now, addSeq, lastOp, ev, prev, tx, photo>>

---------------------------------------------------------------------------
(* Bounds of the model *)

\* callers and target identities are 1..MaxUid
MaxUid == 2
\* CURRENT_TIMESTAMP takes the values 0..MaxTime (one-second resolution)
MaxTime == 1
\* add_user/remove_user run only while the logs table has fewer rows
MaxLog == 2

\* add_user/remove_user calls that can be running side by side
MaxConn == 2

\* photo_handler runs that can be in progress side by side
MaxRun == 2

---------------------------------------------------------------------------
(* Configuration *)

ADMIN_TELEGRAM_ID == 1

Callers == 1..MaxUid

---------------------------------------------------------------------------
(* int(context.args[0]): optional sign, then decimal digits, single        *)
(* underscores allowed between digits; anything else raises ValueError.    *)
(* Text is a sequence of one-character strings.                            *)

DigitChars == <<"0", "1", "2", "3", "4", "5", "6", "7", "8", "9">>

IsDigit(c) == \E k \in 1..10 : DigitChars[k] = c

DigitVal(c) == (CHOOSE k \in 1..10 : DigitChars[k] = c) - 1

\* the decimal text of a natural number below 100
Str(n) == IF n < 10 THEN <<DigitChars[n + 1]>>
          ELSE <<DigitChars[(n \div 10) + 1], DigitChars[(n % 10) + 1]>>

RECURSIVE DigitsValue(_, _)
DigitsValue(s, acc) ==
    IF s = <<>> THEN acc
    ELSE IF Head(s) = "_" THEN DigitsValue(Tail(s), acc)
    ELSE DigitsValue(Tail(s), 10 * acc + DigitVal(Head(s)))

\* digits with single underscores strictly between digits
WellFormedDigits(s) ==
    /\ Len(s) > 0
    /\ IsDigit(s[1])
    /\ IsDigit(s[Len(s)])
    /\ \A k \in 1..Len(s) : IsDigit(s[k]) \/ s[k] = "_"
    /\ \A k \in 1..(Len(s) - 1) : ~(s[k] = "_" /\ s[k + 1] = "_")

ParseIntAcceptsAll(s) ==
    [ok |-> TRUE, val |-> 0]

ParseInt(s) ==
    LET signed == Len(s) > 0 /\ s[1] \in {"+", "-"}
        body   == IF signed THEN Tail(s) ELSE s
    IN  IF WellFormedDigits(body)
        THEN [ok |-> TRUE,
              val |-> IF signed /\ s[1] = "-" THEN 0 - DigitsValue(body, 0)
                      ELSE DigitsValue(body, 0)]
        ELSE [ok |-> FALSE, val |-> 0]

\* the argument words a /add or /remove command is sent with
Tokens ==
    {Str(i) : i \in Callers}
      \cup {<<"+", "2">>, <<"0", "2">>, <<"a", "b", "c">>, <<"2", "x">>,
            <<"2", "_">>, <<"-">>}

NameToken == <<"b", "o", "b">>

ArgLists == {<<>>} \cup {<<t>> : t \in Tokens} \cup {<<Str(2), NameToken>>}

---------------------------------------------------------------------------
(* class DB: tables users(telegram_id PRIMARY KEY, username, added_at) and *)
(* logs(id AUTOINCREMENT, telegram_id, action, created_at).                *)

NoName == "None"

HasRow(tbl, telegram_id) == \E r \in tbl : r.telegram_id = telegram_id

\* INSERT OR IGNORE INTO users(telegram_id, username) VALUES(?,?)
InsertOrReplace(tbl, telegram_id, username, t) ==
    {r \in tbl : r.telegram_id # telegram_id}
      \cup {[telegram_id |-> telegram_id, username |-> username, added_at |-> t]}

InsertOrIgnore(tbl, telegram_id, username, t) ==
    IF HasRow(tbl, telegram_id) THEN tbl
    ELSE tbl \cup {[telegram_id |-> telegram_id, username |-> username,
                    added_at |-> t]}

\* DELETE FROM users WHERE telegram_id = ?
DeleteUser(tbl, telegram_id) == {r \in tbl : r.telegram_id # telegram_id}

\* INSERT INTO logs(telegram_id, action) VALUES(?,?)
InsertLogOverwriting(lg, telegram_id, action, t) ==
    LET rec == [id |-> 1, telegram_id |-> telegram_id,
                action |-> action, created_at |-> t]
    IN  IF lg = <<>> THEN <<rec>>
        ELSE [lg EXCEPT ![Len(lg)] = [rec EXCEPT !.id = Len(lg)]]

InsertLog(lg, telegram_id, action, t) ==
    Append(lg, [id |-> Len(lg) + 1, telegram_id |-> telegram_id,
                action |-> action, created_at |-> t])

\* the call of add_user / remove_user that raises: sqlite3.connect, the
\* statement on users, the statement on logs, conn.commit, or none
StoreFaults == {"none", "connect", "users", "logs", "commit"}

\* DB.add_user: both statements run in the transaction the sqlite3 module
\* opens before the first of them, and conn.commit() ends it.  When a call
\* raises, the connection is dropped with the transaction open, which rolls
\* it back: nothing is committed.
add_user_autocommit(tbl, lg, telegram_id, username, t, failAt) ==
    IF failAt \in {"connect", "users"}
    THEN [users |-> tbl, logs |-> lg, raised |-> TRUE]
    ELSE IF failAt = "logs"
    THEN [users |-> InsertOrIgnore(tbl, telegram_id, username, t),
          logs |-> lg, raised |-> TRUE]
    ELSE [users |-> InsertOrIgnore(tbl, telegram_id, username, t),
          logs |-> InsertLog(lg, telegram_id, "add", t),
          raised |-> failAt # "none"]

add_user_swallowing(tbl, lg, telegram_id, username, t, failAt) ==
    IF failAt # "none" THEN [users |-> tbl, logs |-> lg, raised |-> FALSE]
    ELSE [users |-> InsertOrIgnore(tbl, telegram_id, username, t),
          logs |-> InsertLog(lg, telegram_id, "add", t),
          raised |-> FALSE]

add_user(tbl, lg, telegram_id, username, t, failAt) ==
    IF failAt # "none" THEN [users |-> tbl, logs |-> lg, raised |-> TRUE]
    ELSE [users |-> InsertOrIgnore(tbl, telegram_id, username, t),
          logs |-> InsertLog(lg, telegram_id, "add", t),
          raised |-> FALSE]

\* DB.remove_user
remove_user_strict(tbl, lg, telegram_id, t, failAt) ==
    IF failAt # "none" \/ ~HasRow(tbl, telegram_id)
    THEN [users |-> tbl, logs |-> lg, raised |-> TRUE]
    ELSE [users |-> DeleteUser(tbl, telegram_id),
          logs |-> InsertLog(lg, telegram_id, "remove", t),
          raised |-> FALSE]

remove_user_keeping_row(tbl, lg, telegram_id, t, failAt) ==
    IF failAt # "none" THEN [users |-> tbl, logs |-> lg, raised |-> TRUE]
    ELSE [users |-> tbl,
          logs |-> InsertLog(lg, telegram_id, "remove", t),
          raised |-> FALSE]

remove_user(tbl, lg, telegram_id, t, failAt) ==
    IF failAt # "none" THEN [users |-> tbl, logs |-> lg, raised |-> TRUE]
    ELSE [users |-> DeleteUser(tbl, telegram_id),
          logs |-> InsertLog(lg, telegram_id, "remove", t),
          raised |-> FALSE]

\* A connection of an add_user/remove_user call in progress: pc is how far
\* the call has got ("idle": no call; "open": connected; "wrote_users",
\* "wrote_logs": the statement has run in the open transaction), op and
\* telegram_id are the call, users and logs are the tables as the open
\* transaction sees them.  lock is the connection holding SQLite's write
\* lock (0: none); serial is what the committed calls give when run one
\* after the other in commit order.
Conns == 1..MaxConn

IdleConn ==
    [pc |-> "idle", op |-> "none", telegram_id |-> 0,
     users |-> {}, logs |-> <<>>]

NoTx ==
    [lock |-> 0, conns |-> [c \in Conns |-> IdleConn],
     serial |-> [users |-> {}, logs |-> <<>>]]

\* A photo_handler run in progress: pc is the await it is suspended on
\* ("idle": no run; "get_file", "download", "completion", "reply"; "done"),
\* read is what p.read_bytes() gave it, error the exception the run ended
\* with.
Runs == 1..MaxRun

IdleRun ==
    [pc |-> "idle", uid |-> 0, fid |-> "", read |-> "none", error |-> "none"]

\* complete: the temporary files that hold the whole image
NoPhoto == [runs |-> [r \in Runs |-> IdleRun], complete |-> {}]

\* DB.is_allowed: bool(fetchone()); False when the lookup raises
is_allowed_any(tbl, telegram_id, fail) == tbl # {}

is_allowed_fail_open(tbl, telegram_id, fail) ==
    fail \/ HasRow(tbl, telegram_id)

is_allowed(tbl, telegram_id, fail) ==
    IF fail THEN FALSE ELSE HasRow(tbl, telegram_id)

\* the orders SELECT ... ORDER BY added_at DESC may return the rows in:
\* every arrangement of the rows with added_at non-increasing (rows with
\* equal added_at come in an order SQL leaves open)
IsArrangement(rows, tbl) ==
    /\ Len(rows) = Cardinality(tbl)
    /\ {rows[k] : k \in 1..Len(rows)} = tbl

Descending(rows) ==
    \A a, b \in 1..Len(rows) : a < b => rows[a].added_at >= rows[b].added_at

RECURSIVE Arrangements(_)
Arrangements(tbl) ==
    IF tbl = {} THEN {<<>>}
    ELSE UNION {{<<r>> \o rest : rest \in Arrangements(tbl \ {r})} : r \in tbl}

OrderedAny(tbl) == Arrangements(tbl)

OrderedByAddedAtDesc(tbl) == {rows \in Arrangements(tbl) : Descending(rows)}

\* DB.list_users: the rows, or [] when the query raises
list_users(tbl, fail) ==
    IF fail THEN {<<>>} ELSE OrderedByAddedAtDesc(tbl)

---------------------------------------------------------------------------
(* The completion endpoint.  A response is its status, whether its         *)
(* Content-Type is application/json, its body text and what the body       *)
(* parses to.  Of the parsed JSON the model keeps what the code reads:     *)
(* whether it is an object, its "choices", and of the first choice the     *)
(* "message" and its "content".                                            *)

ExcerptLen == 200

RequestTimeout == 240

MaxCompletionTokens == 10000

NoContent == [type |-> "missing", str |-> <<>>, parts |-> <<>>]

StrContent(s) == [type |-> "str", str |-> s, parts |-> <<>>]

PartsContent(ps) == [type |-> "parts", str |-> <<>>, parts |-> ps]

TextPart(s) == [type |-> "text", text |-> s]

ImagePart == [type |-> "image_url", text |-> <<>>]

NoJson == [type |-> "none", hasChoices |-> FALSE, choices |-> <<>>]

InvalidJson == [type |-> "invalid", hasChoices |-> FALSE, choices |-> <<>>]

ArrayJson == [type |-> "array", hasChoices |-> FALSE, choices |-> <<>>]

ObjectJson(hasChoices, choices) ==
    [type |-> "object", hasChoices |-> hasChoices, choices |-> choices]

Choice(message, content) == [message |-> message, content |-> content]

\* a body of n characters
Body(n) == [k \in 1..n |-> "x"]

Response(status, jsonType, text, json) ==
    [kind |-> "response", status |-> status, jsonType |-> jsonType,
     text |-> text, json |-> json]

NoUpstream ==
    [kind |-> "none", status |-> 0, jsonType |-> FALSE, text |-> <<>>,
     json |-> NoJson]

\* what one POST to the endpoint can end in
Upstream ==
    { [NoUpstream EXCEPT !.kind = "timeout"],
      [NoUpstream EXCEPT !.kind = "neterror"],
      Response(200, TRUE, Body(5),
               ObjectJson(TRUE, <<Choice("object", StrContent(<<"h", "i">>))>>)),
      Response(200, TRUE, Body(6),
               ObjectJson(TRUE, <<Choice("object",
                   PartsContent(<<TextPart(<<"a">>), ImagePart, TextPart(<<"b">>)>>))>>)),
      Response(200, TRUE, Body(7), ObjectJson(TRUE, <<>>)),
      Response(200, TRUE, Body(8), ObjectJson(TRUE, <<Choice("null", NoContent)>>)),
      Response(200, TRUE, Body(9), ObjectJson(TRUE, <<Choice("missing", NoContent)>>)),
      Response(200, TRUE, Body(10), ArrayJson),
      Response(200, TRUE, Body(11), InvalidJson),
      Response(429, TRUE, Body(12), ObjectJson(FALSE, <<>>)),
      Response(500, FALSE, Body(ExcerptLen + 1), InvalidJson) }

\* text[:n]
Take(text, n) == SubSeq(text, 1, IF Len(text) < n THEN Len(text) ELSE n)

\* what a completion call hands back as reply text:
\*   content    the first choice's message content        (text)
\*   raw        str(j), the parsed body stringified        (json)
\*   http_error status and body excerpt                    (status, text)
\*   timeout    the timeout message
\*   exception  str(e) of the exception exc; of a ContentTypeError this
\*              holds the response status                  (status)
NoResult ==
    [kind |-> "none", status |-> 0, text |-> <<>>, json |-> NoJson, exc |-> "none"]

ContentResult(s) == [NoResult EXCEPT !.kind = "content", !.text = s]

RawResult(j) == [NoResult EXCEPT !.kind = "raw", !.json = j]

HttpErrorResult(status, text) ==
    [NoResult EXCEPT !.kind = "http_error", !.status = status, !.text = text]

TimeoutResult == [NoResult EXCEPT !.kind = "timeout"]

ExceptionResult(exc, status) ==
    [NoResult EXCEPT !.kind = "exception", !.exc = exc, !.status = status]

\* "\n".join of the text of the parts whose type is "text": the reading of a
\* list-valued content that claim C10 states; neither call site does this
RECURSIVE JoinTextParts(_)
JoinTextParts(parts) ==
    IF parts = <<>> THEN <<>>
    ELSE LET rest == JoinTextParts(Tail(parts))
         IN  IF Head(parts).type # "text" THEN rest
             ELSE IF \E k \in 1..Len(Tail(parts)) : Tail(parts)[k].type = "text"
                  THEN Head(parts).text \o <<"\n">> \o rest
                  ELSE Head(parts).text

\* the choices lookup both call sites share:
\*   if "choices" in j and len(j["choices"]) > 0:
\*       content = j["choices"][0].get("message", {}).get("content")
\*       if isinstance(content, str): <reply with content>
\*   <reply with str(j)>
\* j.keys() is evaluated first and raises on a JSON array; .get on a null
\* message raises as well
ReadChoicesJoiningParts(j) ==
    IF j.type # "object" THEN ExceptionResult("AttributeError", 0)
    ELSE IF j.hasChoices /\ Len(j.choices) > 0
    THEN LET c == j.choices[1]
         IN  IF c.message = "null" THEN ExceptionResult("AttributeError", 0)
             ELSE IF c.message = "object" /\ c.content.type = "str"
             THEN ContentResult(c.content.str)
             ELSE IF c.message = "object" /\ c.content.type = "parts"
             THEN ContentResult(JoinTextParts(c.content.parts))
             ELSE RawResult(j)
    ELSE RawResult(j)

ReadChoices(j) ==
    IF j.type # "object" THEN ExceptionResult("AttributeError", 0)
    ELSE IF j.hasChoices /\ Len(j.choices) > 0
    THEN LET c == j.choices[1]
         IN  IF c.message = "null" THEN ExceptionResult("AttributeError", 0)
             ELSE IF c.message = "object" /\ c.content.type = "str"
             THEN ContentResult(c.content.str)
             ELSE RawResult(j)
    ELSE RawResult(j)

\* query_openai_with_image, from the POST on: the returned string
ImageResult(up) ==
    IF up.kind = "timeout" THEN TimeoutResult
    ELSE IF up.kind = "neterror" THEN ExceptionResult("ClientError", 0)
    ELSE IF up.status # 200 THEN HttpErrorResult(up.status, Take(up.text, ExcerptLen))
    ELSE IF up.json.type = "invalid" THEN ExceptionResult("JSONDecodeError", 0)
    ELSE ReadChoices(up.json)

\* text_handler, from the POST on: resp.status is logged and not looked at;
\* resp.json() raises ContentTypeError (its text holds the status) unless
\* the Content-Type is JSON, and JSONDecodeError on a malformed body; a
\* timeout is an exception like any other here
TextResult(up) ==
    IF up.kind = "timeout" THEN ExceptionResult("TimeoutError", 0)
    ELSE IF up.kind = "neterror" THEN ExceptionResult("ClientError", 0)
    ELSE IF ~up.jsonType THEN ExceptionResult("ContentTypeError", up.status)
    ELSE IF up.json.type = "invalid" THEN ExceptionResult("JSONDecodeError", 0)
    ELSE ReadChoices(up.json)

\* the requests one completion call sends: session.post is called once, in
\* no loop, and the outcome of the request starts no second one
RequestsWithRetry(payload) == <<payload, payload>>

Requests(payload) == <<payload>>

\* the request bodies (payload) of the two call sites; temperature is the
\* set of values sent under that key

ImagePayload(prompt) ==
    [path |-> "image", content |-> "parts", prompt |-> prompt,
     max_completion_tokens |-> MaxCompletionTokens,
     reasoning_effort |-> "high", temperature |-> {1},
     timeout |-> RequestTimeout]

TextPayload(prompt) ==
    [path |-> "text", content |-> "str", prompt |-> prompt,
     max_completion_tokens |-> MaxCompletionTokens,
     reasoning_effort |-> "high", temperature |-> {},
     timeout |-> RequestTimeout]

---------------------------------------------------------------------------
(* Updates and replies *)

\* the keyboard button labels main() routes to keyboard_button_handler
BTN_MY_ID == "btn: my telegram id"
BTN_HELP == "btn: help"
BTN_LIST == "btn: list users"
BTN_ADD == "btn: add user"
BTN_REMOVE == "btn: remove user"

ButtonLabels == {BTN_MY_ID, BTN_HELP, BTN_LIST, BTN_ADD, BTN_REMOVE}

\* the texts of the non-command text messages sent to the bot
Texts == ButtonLabels \cup {"hello"}

\* the callback data an inline button press carries
CallbackData == {"my_id", "list_users", "help", "other"}

PhotoIds == {"A"}

DefaultCaption == "describe the image"

Captions == {"None", "what is this?"}

\* main(): the first MessageHandler whose filter matches gets a text message.
\* The keyboard-button handler is added before the text handler, and its
\* five patterns "^label$" hold no regular-expression operator besides the
\* anchors, so they match the labels (Telegram delivers text trimmed).
RouteAllToText(text) == "text_handler"

Route(text) ==
    IF text \in ButtonLabels THEN "keyboard_button_handler" ELSE "text_handler"

\* sendFail: Telegram refuses what the handler sends; escaped: the exception
\* that left the handler; logged: the places that wrote an error record
\* while the update was handled: "db" (the except blocks of class DB),
\* "openai" (query_openai_with_image), "handler" (the except block of the
\* handler), "unhandled" (error_handler).
\* pc is where the handler's coroutine stands: "awaiting" while it is
\* suspended on the POST, "resumed" once the POST has ended, else "done";
\* waited is the seconds the POST has been outstanding
NoEvent ==
    [handler |-> "none", uid |-> 0, args |-> <<>>, data |-> "",
     storageFail |-> FALSE, fault |-> "none", upstream |-> NoUpstream,
     replies |-> <<>>, posts |-> <<>>, pc |-> "done", waited |-> 0,
     sendFail |-> FALSE, escaped |-> "none", logged |-> {}]

Event(handler, uid) == [NoEvent EXCEPT !.handler = handler, !.uid = uid]

Reply(kind) == [kind |-> kind, res |-> NoResult, rows |-> <<>>, target |-> 0]

ResultReply(kind, res) == [Reply(kind) EXCEPT !.res = res]

RowsReply(kind, rows) == [Reply(kind) EXCEPT !.rows = rows]

TargetReply(kind, target) == [Reply(kind) EXCEPT !.target = target]

Snapshot == [users |-> users, logs |-> logs, files |-> files]

\* the error records of a DB method whose statement raises
DbLog(fail) == IF fail THEN {"db"} ELSE {}

\* the handler ends touching neither table nor the temporary files
Finish(e) ==
    /\ ev' = e
    /\ prev' = Snapshot
    /\ UNCHANGED <<users, logs, files, now, addSeq, lastOp, tx, photo>>

\* a send outside every try block raises: the exception leaves the handler,
\* and the application hands it to error_handler, which logs it
Undelivered(e) ==
    [e EXCEPT !.sendFail = TRUE, !.replies = <<>>,
              !.escaped = "NetworkError",
              !.logged = @ \cup {"unhandled"}]

\* the handler ends with one send (reply_text, query.answer) that Telegram
\* accepts or refuses
Answer(e) ==
    \E sendFail \in BOOLEAN :
        Finish(IF sendFail THEN Undelivered(e) ELSE e)

Idle == ev = NoEvent

RECURSIVE Without(_, _)
Without(seq, x) ==
    IF seq = <<>> THEN <<>>
    ELSE IF Head(seq) = x THEN Without(Tail(seq), x)
    ELSE <<Head(seq)>> \o Without(Tail(seq), x)

---------------------------------------------------------------------------
(* Initial state: both tables empty (DB._init_db on a new database file),  *)
(* no temporary file, the dispatcher waiting.                              *)

InitWithAdminRow ==
    /\ users = {[telegram_id |-> ADMIN_TELEGRAM_ID, username |-> NoName,
                 added_at |-> 0]}
    /\ logs = <<>>
    /\ files = {}
    /\ now = 0
    /\ addSeq = <<ADMIN_TELEGRAM_ID>>
    /\ lastOp = [i \in Callers |-> "none"]
    /\ ev = NoEvent
    /\ prev = [users |-> users, logs |-> <<>>, files |-> {}]
    /\ tx = NoTx
    /\ photo = NoPhoto

Init ==
    /\ users = {}
    /\ logs = <<>>
    /\ files = {}
    /\ now = 0
    /\ addSeq = <<>>
    /\ lastOp = [i \in Callers |-> "none"]
    /\ ev = NoEvent
    /\ prev = [users |-> {}, logs |-> <<>>, files |-> {}]
    /\ tx = NoTx
    /\ photo = NoPhoto

\* a second passes
Tick ==
    /\ Idle
    /\ now < MaxTime
    /\ now' = now + 1
    /\ UNCHANGED <<users, logs, files, addSeq, lastOp, ev, prev, tx, photo>>

\* the handler has returned, or an exception has left it and error_handler
\* has logged it; the dispatcher takes the next update
NextUpdateUnlessEscaped ==
    /\ ~Idle
    /\ ev.pc = "done"
    /\ ev.escaped = "none"
    /\ ev' = NoEvent
    /\ UNCHANGED <<users, logs, files, now, addSeq, lastOp, prev, tx, photo>>

NextUpdate ==
    /\ ~Idle
    /\ ev.pc = "done"
    /\ ev' = NoEvent
    /\ UNCHANGED <<users, logs, files, now, addSeq, lastOp, prev, tx, photo>>

---------------------------------------------------------------------------
(* Command handlers *)

IsAdminNobody(uid) == FALSE

IsAdmin(uid) == uid = ADMIN_TELEGRAM_ID

\* start_handler
StartReply(uid, fail) ==
    LET is_admin == IsAdmin(uid)
        allowed  == is_allowed(users, uid, fail) \/ is_admin
    IN  IF is_admin THEN Reply("welcome_admin")
        ELSE IF allowed THEN Reply("welcome_allowed")
        ELSE Reply("welcome_denied")

StartHandler ==
    /\ Idle
    /\ \E uid \in Callers, fail \in BOOLEAN :
         Answer([Event("start_handler", uid) EXCEPT
                   !.storageFail = fail,
                   !.logged = DbLog(fail),
                   !.replies = <<StartReply(uid, fail)>>])

\* menu_handler, my_id_handler, help_handler
MenuHandler ==
    /\ Idle
    /\ \E uid \in Callers :
         Answer([Event("menu_handler", uid) EXCEPT
                   !.replies = <<Reply(IF IsAdmin(uid) THEN "menu_admin"
                                       ELSE "menu")>>])

MyIdHandler ==
    /\ Idle
    /\ \E uid \in Callers :
         Answer([Event("my_id_handler", uid) EXCEPT
                   !.replies = <<TargetReply("my_id", uid)>>])

HelpHandler ==
    /\ Idle
    /\ \E uid \in Callers :
         Answer([Event("help_handler", uid) EXCEPT
                   !.replies = <<Reply(IF IsAdmin(uid) THEN "help_admin"
                                       ELSE "help")>>])

\* if not context.args or len(context.args) != 1: <usage reply>
BadArgCountLenient(args) == Len(args) \notin {1, 2}

BadArgCount(args) == Len(args) # 1

\* the history variables after a committed add_user / remove_user
AddSeqAfterAdd(target) ==
    IF HasRow(users, target) THEN addSeq ELSE Append(addSeq, target)

LastOpAfter(target, action) ==
    IF target \in DOMAIN lastOp THEN [lastOp EXCEPT ![target] = action]
    ELSE lastOp

\* add_user_handler.  The reply that follows db.add_user is sent inside the
\* try block: when Telegram refuses it, "except Exception" logs and sends
\* again, and that send raises out of the handler.
AddUserHandler ==
    /\ Idle
    /\ \E uid \in Callers, args \in ArgLists :
         LET e == Event("add_user_handler", uid)
             p == ParseInt(args[1])
         IN  IF ~IsAdmin(uid)
             THEN Answer([e EXCEPT !.replies = <<Reply("admin_only")>>])
             ELSE IF BadArgCount(args)
             THEN Answer([e EXCEPT !.args = args,
                                   !.replies = <<Reply("usage")>>])
             ELSE IF ~p.ok
             THEN Answer([e EXCEPT !.args = args,
                                   !.logged = {"handler"},
                                   !.replies = <<Reply("not_a_number")>>])
             ELSE \E failAt \in StoreFaults, sendFail \in BOOLEAN :
                  LET r == add_user(users, logs, p.val, NoName, now, failAt)
                      e1 == [e EXCEPT
                               !.args = args,
                               !.storageFail = r.raised,
                               !.fault = failAt,
                               !.logged = IF r.raised THEN {"db", "handler"}
                                          ELSE {},
                               !.replies =
                                 <<IF r.raised THEN Reply("add_failed")
                                   ELSE TargetReply("added", p.val)>>]
                  IN  /\ Len(logs) < MaxLog
                      /\ users' = r.users
                      /\ logs' = r.logs
                      /\ addSeq' = IF r.raised THEN addSeq
                                   ELSE AddSeqAfterAdd(p.val)
                      /\ lastOp' = IF r.raised THEN lastOp
                                   ELSE LastOpAfter(p.val, "add")
                      /\ ev' = IF sendFail
                               THEN [Undelivered(e1) EXCEPT
                                       !.logged = @ \cup {"handler"}]
                               ELSE e1
                      /\ prev' = Snapshot
                      /\ UNCHANGED <<files, now, tx, photo>>

\* remove_user_handler
RemoveUserHandler ==
    /\ Idle
    /\ \E uid \in Callers, args \in ArgLists :
         LET e == Event("remove_user_handler", uid)
             p == ParseInt(args[1])
         IN  IF ~IsAdmin(uid)
             THEN Answer([e EXCEPT !.replies = <<Reply("admin_only")>>])
             ELSE IF BadArgCount(args)
             THEN Answer([e EXCEPT !.args = args,
                                   !.replies = <<Reply("usage")>>])
             ELSE IF ~p.ok
             THEN Answer([e EXCEPT !.args = args,
                                   !.logged = {"handler"},
                                   !.replies = <<Reply("not_a_number")>>])
             ELSE \E failAt \in StoreFaults, sendFail \in BOOLEAN :
                  LET r == remove_user(users, logs, p.val, now, failAt)
                      e1 == [e EXCEPT
                               !.args = args,
                               !.storageFail = r.raised,
                               !.fault = failAt,
                               !.logged = IF r.raised THEN {"db", "handler"}
                                          ELSE {},
                               !.replies =
                                 <<IF r.raised THEN Reply("remove_failed")
                                   ELSE TargetReply("removed", p.val)>>]
                  IN  /\ Len(logs) < MaxLog
                      /\ users' = r.users
                      /\ logs' = r.logs
                      /\ addSeq' = IF r.raised THEN addSeq
                                   ELSE Without(addSeq, p.val)
                      /\ lastOp' = IF r.raised THEN lastOp
                                   ELSE LastOpAfter(p.val, "remove")
                      /\ ev' = IF sendFail
                               THEN [Undelivered(e1) EXCEPT
                                       !.logged = @ \cup {"handler"}]
                               ELSE e1
                      /\ prev' = Snapshot
                      /\ UNCHANGED <<files, now, tx, photo>>

\* the report on db.list_users() that list_users_handler and the inline
\* button send
ListReply(rows) ==
    IF rows = <<>> THEN Reply("list_empty") ELSE RowsReply("list", rows)

\* list_users_handler: the reply sequences it can end with
ListUsersReplies(uid, fail) ==
    IF ~IsAdmin(uid) THEN {<<Reply("admin_only")>>}
    ELSE {<<ListReply(rows)>> : rows \in list_users(users, fail)}

ListUsersHandler ==
    /\ Idle
    /\ \E uid \in Callers, fail \in BOOLEAN :
         \E replies \in ListUsersReplies(uid, fail) :
             Answer([Event("list_users_handler", uid) EXCEPT
                       !.storageFail = fail /\ IsAdmin(uid),
                       !.logged = DbLog(fail /\ IsAdmin(uid)),
                       !.replies = replies])

\* button_callback_handler
ButtonRepliesNoAdminCheck(uid, data, fail) ==
    IF data = "my_id" THEN {<<TargetReply("my_id", uid)>>}
    ELSE IF data = "list_users"
    THEN {<<ListReply(rows)>> : rows \in list_users(users, fail)}
    ELSE IF data = "help" THEN {<<Reply("help")>>}
    ELSE {<<>>}

ButtonReplies(uid, data, fail) ==
    IF data = "my_id" THEN {<<TargetReply("my_id", uid)>>}
    ELSE IF data = "list_users" /\ IsAdmin(uid)
    THEN {<<ListReply(rows)>> : rows \in list_users(users, fail)}
    ELSE IF data = "help" THEN {<<Reply("help")>>}
    ELSE {<<>>}

ButtonCallbackHandler ==
    /\ Idle
    /\ \E uid \in Callers, data \in CallbackData, fail \in BOOLEAN :
         \E replies \in ButtonReplies(uid, data, fail) :
             Answer([Event("button_callback_handler", uid) EXCEPT
                       !.data = data,
                       !.storageFail = fail /\ data = "list_users" /\ IsAdmin(uid),
                       !.logged = DbLog(fail /\ data = "list_users"
                                             /\ IsAdmin(uid)),
                       !.replies = replies])

\* keyboard_button_handler
KeyboardReplies(uid, text, fail) ==
    IF text = BTN_MY_ID THEN {<<TargetReply("my_id", uid)>>}
    ELSE IF text = BTN_HELP
    THEN {<<Reply(IF IsAdmin(uid) THEN "help_admin" ELSE "help")>>}
    ELSE IF text = BTN_LIST /\ IsAdmin(uid) THEN ListUsersReplies(uid, fail)
    ELSE IF text = BTN_ADD /\ IsAdmin(uid) THEN {<<Reply("hint_add")>>}
    ELSE IF text = BTN_REMOVE /\ IsAdmin(uid) THEN {<<Reply("hint_remove")>>}
    ELSE {<<>>}

KeyboardButtonHandler ==
    /\ Idle
    /\ \E uid \in Callers, text \in Texts, fail \in BOOLEAN :
         /\ Route(text) = "keyboard_button_handler"
         /\ \E replies \in KeyboardReplies(uid, text, fail) :
              LET e == [Event("keyboard_button_handler", uid) EXCEPT
                          !.data = text,
                          !.storageFail = fail /\ text = BTN_LIST /\ IsAdmin(uid),
                          !.logged = DbLog(fail /\ text = BTN_LIST
                                                /\ IsAdmin(uid)),
                          !.replies = replies]
              IN  IF replies = <<>> THEN Finish(e) ELSE Answer(e)

---------------------------------------------------------------------------
(* Message handlers *)

\* the gate of photo_handler and text_handler:
\*   if not db.is_allowed(uid) and uid != ADMIN_TELEGRAM_ID: refuse
RefusedNobody(uid, fail) == FALSE

Refused(uid, fail) == ~is_allowed(users, uid, fail) /\ ~IsAdmin(uid)

\* text_handler: the reply that follows the completion call
TextReply(res) ==
    IF res.kind = "content" THEN ResultReply("answer", res)
    ELSE IF res.kind = "raw" THEN ResultReply("raw", res)
    ELSE ResultReply("openai_error", res)

\* text_handler: its except block logs the exception it replies with
TextLog(res) == IF res.kind = "exception" THEN {"handler"} ELSE {}

\* query_openai_with_image logs an error status, a timeout and an exception
ImageLog(res) ==
    IF res.kind \in {"http_error", "timeout", "exception"} THEN {"openai"}
    ELSE {}

TextHandler ==
    /\ Idle
    /\ \E uid \in Callers, text \in Texts, fail \in BOOLEAN :
         /\ Route(text) = "text_handler"
         /\ LET e == [Event("text_handler", uid) EXCEPT
                        !.data = text, !.storageFail = fail,
                        !.logged = DbLog(fail)]
            IN  IF Refused(uid, fail)
                THEN Answer([e EXCEPT !.replies = <<Reply("unauthorized")>>])
                ELSE \E sendFail \in BOOLEAN :
                  IF sendFail THEN Finish(Undelivered(e))
                  ELSE \E up \in Upstream :
                       Finish([e EXCEPT
                                 !.upstream = up,
                                 !.posts = Requests(TextPayload(text)),
                                 !.logged = @ \cup TextLog(TextResult(up)),
                                 !.replies = <<Reply("request_sent"),
                                               TextReply(TextResult(up))>>])

\* photo_handler.  fault names the call of the try block that raises:
\* get_file, download (download_to_drive, which may leave a partial file),
\* reply (the reply_text that sends the result) or none.
PhotoFaults == {"none", "get_file", "download", "reply"}

PhotoHandler ==
    /\ Idle
    /\ \E uid \in Callers, fid \in PhotoIds, fail \in BOOLEAN,
          sendFail \in BOOLEAN :
         LET e == [Event("photo_handler", uid) EXCEPT
                     !.data = fid, !.storageFail = fail,
                     !.logged = DbLog(fail)]
             accepted == Reply("photo_accepted")
             failed == Reply("photo_failed")
         IN  /\ prev' = Snapshot
             /\ UNCHANGED <<users, logs, now, addSeq, lastOp, tx, photo>>
             /\ IF sendFail
                THEN /\ ev' = Undelivered(e)
                     /\ files' = files
                ELSE IF Refused(uid, fail)
                THEN /\ ev' = [e EXCEPT !.replies = <<Reply("unauthorized")>>]
                     /\ files' = files
                ELSE \E fault \in PhotoFaults :
                  IF fault = "get_file"
                  THEN /\ ev' = [e EXCEPT !.fault = fault,
                                          !.logged = @ \cup {"handler"},
                                          !.replies = <<accepted, failed>>]
                       /\ files' = files
                  ELSE IF fault = "download"
                  THEN /\ ev' = [e EXCEPT !.fault = fault,
                                          !.logged = @ \cup {"handler"},
                                          !.replies = <<accepted, failed>>]
                       /\ \E partial \in BOOLEAN :
                            files' = IF partial THEN files \cup {fid} ELSE files
                  ELSE \E caption \in Captions, up \in Upstream :
                    LET prompt == IF caption = "None" THEN DefaultCaption
                                  ELSE caption
                        posted == [e EXCEPT !.fault = fault,
                                            !.upstream = up,
                                            !.logged = @ \cup ImageLog(ImageResult(up)),
                                            !.posts = Requests(ImagePayload(prompt))]
                    IN  IF fault = "reply"
                        THEN /\ ev' = [posted EXCEPT
                                         !.logged = @ \cup {"handler"},
                                         !.replies = <<accepted, failed>>]
                             /\ files' = files \cup {fid}
                        ELSE /\ ev' = [posted EXCEPT
                                         !.replies =
                                           <<accepted,
                                             ResultReply("analysis",
                                                         ImageResult(up))>>]
                             /\ files' = files \ {fid}

---------------------------------------------------------------------------

Next ==
    \/ Tick
    \/ NextUpdate
    \/ StartHandler
    \/ MenuHandler
    \/ MyIdHandler
    \/ HelpHandler
    \/ AddUserHandler
    \/ RemoveUserHandler
    \/ ListUsersHandler
    \/ ButtonCallbackHandler
    \/ KeyboardButtonHandler
    \/ TextHandler
    \/ PhotoHandler

Spec == Init /\ [][Next]_vars

---------------------------------------------------------------------------
(* The relay with the await on the POST as a step of its own: the handler  *)
(* runs up to session.post(..., timeout=240), is suspended while the       *)
(* request is outstanding, and resumes when the endpoint answers or the    *)
(* timer of the request expires.                                           *)

\* the stores the relay starts from: nobody added, or one caller added
RelayInit ==
    /\ \E r \in {[users |-> {}, logs |-> <<>>, raised |-> FALSE]} \cup
                {add_user({}, <<>>, i, NoName, 0, "none") :
                   i \in Callers \ {ADMIN_TELEGRAM_ID}} :
         /\ users = r.users
         /\ logs = r.logs
         /\ addSeq = [k \in 1..Len(r.logs) |-> r.logs[k].telegram_id]
         /\ lastOp = [i \in Callers |->
                        IF HasRow(r.users, i) THEN "add" ELSE "none"]
    /\ files = {}
    /\ now = 0
    /\ ev = NoEvent
    /\ prev = [users |-> users, logs |-> logs, files |-> {}]
    /\ tx = [NoTx EXCEPT !.serial = [users |-> users, logs |-> logs]]
    /\ photo = NoPhoto

\* text_handler up to the await on session.post
TextHandlerPost ==
    /\ Idle
    /\ \E uid \in Callers, text \in Texts, fail \in BOOLEAN :
         /\ Route(text) = "text_handler"
         /\ LET e == [Event("text_handler", uid) EXCEPT
                        !.data = text, !.storageFail = fail,
                        !.logged = DbLog(fail)]
            IN  IF Refused(uid, fail)
                THEN Answer([e EXCEPT !.replies = <<Reply("unauthorized")>>])
                ELSE \E sendFail \in BOOLEAN :
                  IF sendFail THEN Finish(Undelivered(e))
                  ELSE Finish([e EXCEPT
                                 !.pc = "awaiting",
                                 !.posts = Requests(TextPayload(text)),
                                 !.replies = <<Reply("request_sent")>>])

\* photo_handler up to the await on session.post in query_openai_with_image
PhotoHandlerPost ==
    /\ Idle
    /\ \E uid \in Callers, fid \in PhotoIds, fail \in BOOLEAN,
          sendFail \in BOOLEAN :
         LET e == [Event("photo_handler", uid) EXCEPT
                     !.data = fid, !.storageFail = fail,
                     !.logged = DbLog(fail)]
             accepted == Reply("photo_accepted")
             failed == Reply("photo_failed")
         IN  /\ prev' = Snapshot
             /\ UNCHANGED <<users, logs, now, addSeq, lastOp, tx, photo>>
             /\ IF sendFail
                THEN /\ ev' = Undelivered(e)
                     /\ files' = files
                ELSE IF Refused(uid, fail)
                THEN /\ ev' = [e EXCEPT !.replies = <<Reply("unauthorized")>>]
                     /\ files' = files
                ELSE \E fault \in {"none", "get_file", "download"} :
                  IF fault = "get_file"
                  THEN /\ ev' = [e EXCEPT !.fault = fault,
                                          !.logged = @ \cup {"handler"},
                                          !.replies = <<accepted, failed>>]
                       /\ files' = files
                  ELSE IF fault = "download"
                  THEN /\ ev' = [e EXCEPT !.fault = fault,
                                          !.logged = @ \cup {"handler"},
                                          !.replies = <<accepted, failed>>]
                       /\ \E partial \in BOOLEAN :
                            files' = IF partial THEN files \cup {fid} ELSE files
                  ELSE \E caption \in Captions :
                    LET prompt == IF caption = "None" THEN DefaultCaption
                                  ELSE caption
                    IN  /\ ev' = [e EXCEPT
                                    !.pc = "awaiting",
                                    !.posts = Requests(ImagePayload(prompt)),
                                    !.replies = <<accepted>>]
                        /\ files' = files \cup {fid}

Awaiting == ev.pc = "awaiting"

\* a second passes while the request is outstanding
Second ==
    /\ Awaiting
    /\ ev.waited < ev.posts[1].timeout
    /\ ev' = [ev EXCEPT !.waited = @ + 1]
    /\ UNCHANGED <<users, logs, files, now, addSeq, lastOp, prev, tx, photo>>

\* the endpoint answers, or the connection breaks, before the timer expires
Respond ==
    /\ Awaiting
    /\ \E up \in Upstream :
         /\ up.kind # "timeout"
         /\ ev' = [ev EXCEPT !.pc = "resumed", !.upstream = up, !.waited = 0]
    /\ UNCHANGED <<users, logs, files, now, addSeq, lastOp, prev, tx, photo>>

\* timeout=240: the timer of the request expires and asyncio.TimeoutError is
\* raised into the handler
ExpireNever ==
    /\ FALSE
    /\ UNCHANGED vars

Expire ==
    /\ Awaiting
    /\ ev.waited = ev.posts[1].timeout
    /\ ev' = [ev EXCEPT !.pc = "resumed",
                        !.upstream = [NoUpstream EXCEPT !.kind = "timeout"]]
    /\ UNCHANGED <<users, logs, files, now, addSeq, lastOp, prev, tx, photo>>

\* the handler runs on from the POST to its end
Resume ==
    /\ ev.pc = "resumed"
    /\ UNCHANGED <<users, logs, now, addSeq, lastOp, prev, tx, photo>>
    /\ IF ev.handler = "text_handler"
       THEN /\ ev' = [ev EXCEPT
                        !.pc = "done",
                        !.logged = @ \cup TextLog(TextResult(ev.upstream)),
                        !.replies = Append(@, TextReply(TextResult(ev.upstream)))]
            /\ files' = files
       ELSE \E fault \in {"none", "reply"} :
              IF fault = "reply"
              THEN /\ ev' = [ev EXCEPT
                               !.pc = "done",
                               !.fault = fault,
                               !.logged = @ \cup ImageLog(ImageResult(ev.upstream))
                                            \cup {"handler"},
                               !.replies = Append(@, Reply("photo_failed"))]
                   /\ files' = files
              ELSE /\ ev' = [ev EXCEPT
                               !.pc = "done",
                               !.logged = @ \cup ImageLog(ImageResult(ev.upstream)),
                               !.replies =
                                 Append(@, ResultReply("analysis",
                                                       ImageResult(ev.upstream)))]
                   /\ files' = files \ {ev.data}

RelayNext ==
    \/ NextUpdate
    \/ TextHandlerPost
    \/ PhotoHandlerPost
    \/ Second
    \/ Respond
    \/ Expire
    \/ Resume

\* time passes, the event loop fires a due timer and runs a coroutine that
\* is ready; the endpoint is not obliged to answer
RelayFairness ==
    /\ WF_vars(Second)
    /\ WF_vars(Expire)
    /\ WF_vars(Resume)

RelaySpec == RelayInit /\ [][RelayNext]_vars /\ RelayFairness

---------------------------------------------------------------------------
(* The store under add_user/remove_user calls that run side by side (two   *)
(* bot processes on one database file), statement by statement.  Each call *)
(* has its own connection; the sqlite3 module opens a transaction before   *)
(* the first INSERT/DELETE, the statement takes SQLite's write lock, and   *)
(* what the transaction wrote becomes visible to others at conn.commit().  *)

\* the calls in progress
Active == {c \in Conns : tx.conns[c].pc # "idle"}

\* sqlite3.connect of a new call
Connect(c) ==
    /\ tx.conns[c].pc = "idle"
    /\ Len(logs) + Cardinality(Active) < MaxLog
    /\ \E op \in {"add", "remove"}, i \in Callers :
         tx' = [tx EXCEPT !.conns[c] =
                  [IdleConn EXCEPT !.pc = "open", !.op = op, !.telegram_id = i]]
    /\ UNCHANGED <<users, logs, files, now, addSeq, lastOp, ev, prev, photo>>

\* a write statement runs only when no other connection holds the write lock
CanWriteAlways(c) == TRUE

CanWrite(c) == tx.lock \in {0, c}

\* INSERT OR IGNORE INTO users / DELETE FROM users: takes the write lock and
\* changes the table inside the transaction
WriteUsers(c) ==
    LET conn == tx.conns[c]
    IN  /\ conn.pc = "open"
        /\ CanWrite(c)
        /\ tx' = [tx EXCEPT
                    !.lock = c,
                    !.conns[c] =
                      [conn EXCEPT
                         !.pc = "wrote_users",
                         !.users =
                           IF conn.op = "add"
                           THEN InsertOrIgnore(users, conn.telegram_id, NoName, now)
                           ELSE DeleteUser(users, conn.telegram_id),
                         !.logs = logs]]
        /\ UNCHANGED <<users, logs, files, now, addSeq, lastOp, ev, prev, photo>>

\* the write lock is held by another connection until the busy timeout is
\* over: the statement raises "database is locked" and the call fails
Busy(c) ==
    /\ tx.conns[c].pc = "open"
    /\ ~CanWrite(c)
    /\ tx' = [tx EXCEPT !.conns[c] = IdleConn]
    /\ UNCHANGED <<users, logs, files, now, addSeq, lastOp, ev, prev, photo>>

\* INSERT INTO logs
WriteLogs(c) ==
    LET conn == tx.conns[c]
    IN  /\ conn.pc = "wrote_users"
        /\ tx' = [tx EXCEPT
                    !.conns[c] =
                      [conn EXCEPT
                         !.pc = "wrote_logs",
                         !.logs = InsertLog(conn.logs, conn.telegram_id,
                                            conn.op, now)]]
        /\ UNCHANGED <<users, logs, files, now, addSeq, lastOp, ev, prev, photo>>

\* conn.commit(): the tables become what the transaction wrote
Commit(c) ==
    LET conn == tx.conns[c]
        r == IF conn.op = "add"
             THEN add_user(tx.serial.users, tx.serial.logs, conn.telegram_id,
                           NoName, now, "none")
             ELSE remove_user(tx.serial.users, tx.serial.logs,
                              conn.telegram_id, now, "none")
    IN  /\ conn.pc = "wrote_logs"
        /\ users' = conn.users
        /\ logs' = conn.logs
        /\ addSeq' = IF conn.op = "add" THEN AddSeqAfterAdd(conn.telegram_id)
                     ELSE Without(addSeq, conn.telegram_id)
        /\ lastOp' = LastOpAfter(conn.telegram_id, conn.op)
        /\ tx' = [tx EXCEPT
                    !.lock = IF @ = c THEN 0 ELSE @,
                    !.conns[c] = IdleConn,
                    !.serial = [users |-> r.users, logs |-> r.logs]]
        /\ UNCHANGED <<files, now, ev, prev, photo>>

\* a statement or the commit raises: the connection is dropped with its
\* transaction open, which rolls it back and frees the lock
Abort(c) ==
    /\ tx.conns[c].pc \in {"open", "wrote_users", "wrote_logs"}
    /\ tx' = [tx EXCEPT
                !.lock = IF @ = c THEN 0 ELSE @,
                !.conns[c] = IdleConn]
    /\ UNCHANGED <<users, logs, files, now, addSeq, lastOp, ev, prev, photo>>

StoreNext ==
    \E c \in Conns :
        \/ Connect(c)
        \/ WriteUsers(c)
        \/ Busy(c)
        \/ WriteLogs(c)
        \/ Commit(c)
        \/ Abort(c)

StoreSpec == Init /\ [][StoreNext]_vars

---------------------------------------------------------------------------
(* photo_handler runs in progress side by side, as when the application   *)
(* dispatches updates concurrently: the runs are tasks of one event loop,  *)
(* so a run gives way to another only at an await.  Runs on photos with    *)
(* the same file_unique_id use the same file img_<file_unique_id>.jpg.     *)

\* p.read_bytes(): FileNotFoundError without the file
read_bytes(fs, complete, fid) ==
    IF fid \notin fs THEN "missing"
    ELSE IF fid \in complete THEN "complete"
    ELSE "partial"

\* p.unlink(missing_ok=True)
unlink_strict(fs, fid) ==
    [files |-> fs \ {fid}, raised |-> fid \notin fs]

unlink(fs, fid) == [files |-> fs \ {fid}, raised |-> FALSE]

SetRun(r, run) == [photo EXCEPT !.runs[r] = run]

\* photo_handler up to the await on get_file: the gate and the first reply
PhotoStart(r) ==
    /\ photo.runs[r].pc = "idle"
    /\ \E uid \in Callers, fid \in PhotoIds, fail \in BOOLEAN,
          sendFail \in BOOLEAN :
         LET run == [IdleRun EXCEPT !.uid = uid, !.fid = fid]
         IN  photo' =
               IF sendFail
               THEN SetRun(r, [run EXCEPT !.pc = "done",
                                          !.error = "NetworkError"])
               ELSE IF Refused(uid, fail)
               THEN SetRun(r, [run EXCEPT !.pc = "done"])
               ELSE SetRun(r, [run EXCEPT !.pc = "get_file"])
    /\ UNCHANGED <<users, logs, files, now, addSeq, lastOp, ev, prev, tx>>

\* context.bot.get_file returns or raises
PhotoGetFile(r) ==
    LET run == photo.runs[r]
    IN  /\ run.pc = "get_file"
        /\ \E ok \in BOOLEAN :
             photo' = IF ok THEN SetRun(r, [run EXCEPT !.pc = "download"])
                      ELSE SetRun(r, [run EXCEPT !.pc = "done",
                                                 !.error = "get_file"])
        /\ UNCHANGED <<users, logs, files, now, addSeq, lastOp, ev, prev, tx>>

\* file.download_to_drive has the bytes: it writes them with one
\* write_bytes and returns, and the handler goes on to p.stat() and
\* p.read_bytes() with no await in between; or the download raises, the
\* file written in part or not at all
PhotoDownload(r) ==
    LET run == photo.runs[r]
    IN  /\ run.pc = "download"
        /\ UNCHANGED <<users, logs, now, addSeq, lastOp, ev, prev, tx>>
        /\ \E ok \in BOOLEAN, partial \in BOOLEAN :
             IF ok
             THEN /\ ~partial
                  /\ files' = files \cup {run.fid}
                  /\ photo' =
                       [photo EXCEPT
                          !.complete = @ \cup {run.fid},
                          !.runs[r] =
                            [run EXCEPT
                               !.pc = "completion",
                               !.read = read_bytes(files \cup {run.fid},
                                                   photo.complete \cup {run.fid},
                                                   run.fid)]]
             ELSE /\ files' = IF partial THEN files \cup {run.fid} ELSE files
                  /\ photo' =
                       [photo EXCEPT
                          !.complete = IF partial THEN @ \ {run.fid} ELSE @,
                          !.runs[r] = [run EXCEPT !.pc = "done",
                                                  !.error = "download"]]

\* query_openai_with_image returns its string (it raises nothing)
PhotoCompletion(r) ==
    LET run == photo.runs[r]
    IN  /\ run.pc = "completion"
        /\ photo' = SetRun(r, [run EXCEPT !.pc = "reply"])
        /\ UNCHANGED <<users, logs, files, now, addSeq, lastOp, ev, prev, tx>>

\* the reply_text of the result returns and the file is unlinked, or it
\* raises and the except block leaves the file
PhotoReply(r) ==
    LET run == photo.runs[r]
        u == unlink(files, run.fid)
    IN  /\ run.pc = "reply"
        /\ UNCHANGED <<users, logs, now, addSeq, lastOp, ev, prev, tx>>
        /\ \E ok \in BOOLEAN :
             IF ok
             THEN /\ files' = IF u.raised THEN files ELSE u.files
                  /\ photo' =
                       [photo EXCEPT
                          !.complete = IF u.raised THEN @ ELSE @ \ {run.fid},
                          !.runs[r] =
                            [run EXCEPT
                               !.pc = "done",
                               !.error = IF u.raised THEN "FileNotFoundError"
                                         ELSE "none"]]
             ELSE /\ files' = files
                  /\ photo' = SetRun(r, [run EXCEPT !.pc = "done",
                                                    !.error = "reply"])

\* the handler has returned
PhotoReturn(r) ==
    /\ photo.runs[r].pc = "done"
    /\ photo' = SetRun(r, IdleRun)
    /\ UNCHANGED <<users, logs, files, now, addSeq, lastOp, ev, prev, tx>>

PhotoNext ==
    \E r \in Runs :
        \/ PhotoStart(r)
        \/ PhotoGetFile(r)
        \/ PhotoDownload(r)
        \/ PhotoCompletion(r)
        \/ PhotoReply(r)
        \/ PhotoReturn(r)

PhotoSpec == Init /\ [][PhotoNext]_vars

---------------------------------------------------------------------------
(* Properties *)

Handled == ev.handler # "none"

ReplyKinds == {ev.replies[k].kind : k \in 1..Len(ev.replies)}

LastReply ==
    IF ev.replies = <<>> THEN Reply("none") ELSE ev.replies[Len(ev.replies)]

TablesUntouched == users = prev.users /\ logs = prev.logs

\* Telegram accepted what the handler sent
Delivered == ~ev.sendFail

\* the identity a one-word /add or /remove names
Target == ParseInt(ev.args[1]).val

\* the argument words of Tokens that Python's int() rejects
NonIntegerTokens == {<<"a", "b", "c">>, <<"2", "x">>, <<"2", "_">>, <<"-">>}

\* C1: whatever the users table holds, an update from the administrator is
\* handled as the administrator's: /start answers with the administrator
\* welcome, text_handler and photo_handler do not refuse and post to the
\* completion endpoint (photo_handler once the image is downloaded), and
\* /add, /remove and /list never answer "administrator only" (Telegram
\* accepting what the handler sends).
C1_AdminAlwaysAuthorized ==
    (Handled /\ ev.uid = ADMIN_TELEGRAM_ID /\ Delivered) =>
        /\ ev.handler = "start_handler" =>
              ev.replies = <<Reply("welcome_admin")>>
        /\ ev.handler = "text_handler" =>
              "unauthorized" \notin ReplyKinds /\ Len(ev.posts) = 1
        /\ ev.handler = "photo_handler" =>
              /\ "unauthorized" \notin ReplyKinds
              /\ ev.fault \in {"none", "reply"} => Len(ev.posts) = 1
        /\ ev.handler \in {"add_user_handler", "remove_user_handler",
                           "list_users_handler"} =>
              "admin_only" \notin ReplyKinds

\* the administrator, removed from the users table and with the lookup
\* failing, has a text message relayed
C1_Witness ==
    /\ ev.handler = "text_handler"
    /\ ev.uid = ADMIN_TELEGRAM_ID
    /\ ev.storageFail
    /\ lastOp[ADMIN_TELEGRAM_ID] = "remove"
    /\ ~HasRow(users, ADMIN_TELEGRAM_ID)
    /\ Len(ev.posts) = 1

\* C2: for every identity other than the administrator, is_allowed (its
\* lookup succeeding) is true exactly when the last committed
\* add_user/remove_user on that identity was an add_user; /start shows it.
C2_IsAllowedReflectsLastOp ==
    /\ \A i \in Callers \ {ADMIN_TELEGRAM_ID} :
          is_allowed(users, i, FALSE) = (lastOp[i] = "add")
    /\ (ev.handler = "start_handler" /\ ev.uid # ADMIN_TELEGRAM_ID
          /\ ~ev.storageFail /\ Delivered) =>
          ev.replies = <<Reply(IF lastOp[ev.uid] = "add" THEN "welcome_allowed"
                               ELSE "welcome_denied")>>

\* identity 2 was added, then removed, and /start tells it so while
\* another row is in the table
C2_Witness ==
    /\ ev.handler = "start_handler"
    /\ ev.uid = 2
    /\ ~ev.storageFail
    /\ lastOp[2] = "remove"
    /\ \E k \in 1..Len(logs) : logs[k].telegram_id = 2 /\ logs[k].action = "add"
    /\ ev.replies = <<Reply("welcome_denied")>>

\* C3: a text or photo message from a caller who is not the administrator
\* and has no users row when the handler runs is refused and posts nothing
\* to the completion endpoint; in particular nothing is posted for an
\* identity whose last committed operation is not an add_user.
C3_DeniedNeverRelayed ==
    (ev.handler \in {"text_handler", "photo_handler"}
       /\ ev.uid # ADMIN_TELEGRAM_ID
       /\ (~HasRow(prev.users, ev.uid) \/ lastOp[ev.uid] # "add")) =>
        /\ ev.posts = <<>>
        /\ Delivered => ev.replies = <<Reply("unauthorized")>>
        /\ ev.upstream = NoUpstream

\* a former member's text message is refused after its removal
C3_Witness ==
    /\ ev.handler = "text_handler"
    /\ ev.uid = 2
    /\ ~ev.storageFail
    /\ lastOp[2] = "remove"
    /\ \E k \in 1..Len(logs) : logs[k].telegram_id = 2 /\ logs[k].action = "add"
    /\ ev.posts = <<>>

\* C4: an update from anybody but the administrator, whatever its handler
\* (/add, /remove, /list, the inline list button, a keyboard button),
\* leaves both tables as they were and gets no member list.
C4_OnlyAdminMutatesOrLists ==
    (Handled /\ ev.uid # ADMIN_TELEGRAM_ID) =>
        /\ TablesUntouched
        /\ ReplyKinds \cap {"list", "list_empty", "added", "removed"} = {}
        /\ \A k \in 1..Len(ev.replies) : ev.replies[k].rows = <<>>

\* a member presses the inline list button and gets nothing
C4_Witness ==
    /\ ev.handler = "button_callback_handler"
    /\ ev.data = "list_users"
    /\ ev.uid = 2
    /\ HasRow(users, 2)
    /\ ev.replies = <<>>

\* C5: an add_user that commits leaves exactly one row for its identity; if
\* the identity had a row, the users table is unchanged (the row keeps its
\* username and added_at) and the call still succeeds.  As a function:
\* add_user twice gives the users table add_user once gives.
C5_AddIdempotent ==
    /\ (ev.handler = "add_user_handler" /\ ev.uid = ADMIN_TELEGRAM_ID
          /\ Len(ev.args) = 1 /\ ev.args[1] \notin NonIntegerTokens
          /\ ~ev.storageFail) =>
          /\ Delivered => ev.replies = <<TargetReply("added", Target)>>
          /\ Cardinality({r \in users : r.telegram_id = Target}) = 1
          /\ HasRow(prev.users, Target) => users = prev.users
    /\ \A i \in Callers, t \in now..MaxTime :
          LET once  == add_user(users, logs, i, NoName, now, "none")
              twice == add_user(once.users, once.logs, i, NoName, t, "none")
          IN  twice.users = once.users /\ ~twice.raised

\* /add of an identity whose row is from an earlier second
C5_Witness ==
    /\ ev.handler = "add_user_handler"
    /\ LastReply.kind = "added"
    /\ \E r \in prev.users : r.telegram_id = LastReply.target /\ r.added_at < now

\* C6: remove_user of an identity without a row, no storage call failing,
\* succeeds, leaves the users table as it was and appends one logs row
\* with action 'remove' for it.
C6_RemoveNonMember ==
    (ev.handler = "remove_user_handler" /\ ev.uid = ADMIN_TELEGRAM_ID
       /\ Len(ev.args) = 1 /\ ev.args[1] \notin NonIntegerTokens
       /\ ev.fault = "none" /\ ~HasRow(prev.users, Target)) =>
        /\ Delivered => ev.replies = <<TargetReply("removed", Target)>>
        /\ users = prev.users
        /\ Len(logs) = Len(prev.logs) + 1
        /\ SubSeq(logs, 1, Len(prev.logs)) = prev.logs
        /\ logs[Len(logs)].telegram_id = Target
        /\ logs[Len(logs)].action = "remove"

\* /remove of a non-member while another identity is a member
C6_Witness ==
    /\ ev.handler = "remove_user_handler"
    /\ LastReply.kind = "removed"
    /\ ~HasRow(prev.users, LastReply.target)
    /\ prev.users # {}
    /\ Len(logs) = Len(prev.logs) + 1

\* position of an identity in addSeq (0 when absent)
AddOrder(telegram_id) ==
    IF \E k \in 1..Len(addSeq) : addSeq[k] = telegram_id
    THEN CHOOSE k \in 1..Len(addSeq) : addSeq[k] = telegram_id
    ELSE 0

\* the updates answered from a db.list_users() that did not raise
Listed ==
    /\ Handled
    /\ ev.uid = ADMIN_TELEGRAM_ID
    /\ ~ev.storageFail
    /\ Delivered
    /\ \/ ev.handler = "list_users_handler"
       \/ ev.handler = "button_callback_handler" /\ ev.data = "list_users"
       \/ ev.handler = "keyboard_button_handler" /\ ev.data = BTN_LIST

\* C7: a list_users that does not raise returns every users row once and
\* no other, with added_at non-increasing, so that a row inserted in a
\* later second comes before a row inserted in an earlier one; it has as
\* many entries as identities were added and not removed since.
C7_ListOrderedComplete ==
    Listed =>
        LET rows == LastReply.rows
        IN  /\ Len(ev.replies) = 1
            /\ LastReply.kind = (IF users = {} THEN "list_empty" ELSE "list")
            /\ IsArrangement(rows, users)
            /\ Len(rows) = Cardinality({i \in Callers : lastOp[i] = "add"})
            /\ \A a, b \in 1..Len(rows) :
                 a < b => /\ rows[a].added_at >= rows[b].added_at
                          /\ rows[a].added_at # rows[b].added_at =>
                               AddOrder(rows[a].telegram_id)
                                 > AddOrder(rows[b].telegram_id)

\* two members added in different seconds are listed, the later first
C7_Witness ==
    /\ Listed
    /\ LastReply.kind = "list"
    /\ Len(LastReply.rows) = 2
    /\ LastReply.rows[1].added_at > LastReply.rows[2].added_at

\* C8: the administrator's /add or /remove with one argument that is no
\* integer answers "must be a number", leaves both tables as they were,
\* and the dispatcher goes on to the next update.
C8_NonIntegerArgument ==
    (ev.handler \in {"add_user_handler", "remove_user_handler"}
       /\ ev.uid = ADMIN_TELEGRAM_ID
       /\ Len(ev.args) = 1 /\ ev.args[1] \in NonIntegerTokens) =>
        /\ Delivered => ev.replies = <<Reply("not_a_number")>>
        /\ TablesUntouched
        /\ ENABLED NextUpdate

\* "/remove 2x" with a member in the table
C8_Witness ==
    /\ ev.handler = "remove_user_handler"
    /\ ev.args = <<(<<"2", "x">>)>>
    /\ users # {}
    /\ ev.replies = <<Reply("not_a_number")>>

\* the text and photo updates whose completion call got a response
Completed ==
    /\ ev.handler \in {"text_handler", "photo_handler"}
    /\ ev.upstream.kind = "response"
    /\ ev.fault = "none"

\* C9: on both paths, a response whose status is not 200 is answered with
\* a reply holding the status and the body's first ExcerptLen characters,
\* and no exception is raised on the way.
C9_ErrorStatusReported ==
    (Completed /\ ev.upstream.status # 200) =>
        /\ LastReply.res.kind = "http_error"
        /\ LastReply.res.status = ev.upstream.status
        /\ LastReply.res.text = Take(ev.upstream.text, ExcerptLen)

\* the first choice's content is a list of typed parts
PartsAnswered ==
    /\ Completed
    /\ ev.upstream.status = 200
    /\ ev.upstream.json.type = "object"
    /\ Len(ev.upstream.json.choices) > 0
    /\ ev.upstream.json.choices[1].content.type = "parts"

\* C10 as amended: when the first choice's content is a list of typed
\* parts, no part is read; the reply is the whole parsed response
\* stringified, on both paths.
C10_PartsFallBackToRaw ==
    PartsAnswered =>
        /\ LastReply.res = RawResult(ev.upstream.json)
        /\ LastReply.kind = (IF ev.handler = "text_handler" THEN "raw"
                             ELSE "analysis")

C10_Witness ==
    /\ PartsAnswered
    /\ ev.handler = "photo_handler"
    /\ LastReply.res.kind = "raw"

\* C10 as stated: the reply is the text of the parts of type "text",
\* joined by newlines
C10_PartsJoined ==
    PartsAnswered =>
        /\ LastReply.res.kind = "content"
        /\ LastReply.res.text =
             JoinTextParts(ev.upstream.json.choices[1].content.parts)

\* a 200 response without choices or of a shape the lookup does not know:
\* a malformed body, JSON that is no object, no or empty "choices", a first
\* choice whose "message" is missing or null
Unrecognized(j) ==
    \/ j.type # "object"
    \/ ~j.hasChoices
    \/ Len(j.choices) = 0
    \/ j.choices[1].message \in {"missing", "null"}

\* C11: a 200 response without choices or of an unrecognized shape is
\* answered with the stringified raw response, never with an error reply.
C11_UnrecognizedShapeFallsBack ==
    (Completed /\ ev.upstream.status = 200 /\ Unrecognized(ev.upstream.json)) =>
        LastReply.res.kind = "raw"

\* a reply after the acknowledgement of the message
AnsweredAfterPost ==
    /\ Len(ev.replies) = 2
    /\ LastReply.kind \in {"analysis", "openai_error", "photo_failed"}

\* C12: a text or photo handler suspended on the completion call always runs
\* to its end, and when the call has hit the timeout the handler ends having
\* sent the caller a reply after the call.
C12_TimeoutAnswered ==
    /\ Awaiting ~> (ev.pc = "done")
    /\ [](ev.pc = "done" /\ ev.upstream.kind = "timeout" => AnsweredAfterPost)

C12_Witness ==
    /\ ev.pc = "done"
    /\ ev.handler = "text_handler"
    /\ ~IsAdmin(ev.uid)
    /\ ev.waited = RequestTimeout
    /\ ev.upstream.kind = "timeout"
    /\ LastReply = ResultReply("openai_error", ExceptionResult("TimeoutError", 0))

\* C13: the gate is fail-closed: a lookup that fails makes is_allowed return
\* false, so a text or photo message of a caller other than the
\* administrator is refused and no completion request is posted, whether or
\* not the caller has a row.
C13_FailClosed ==
    /\ \A i \in Callers : ~is_allowed(users, i, TRUE)
    /\ (/\ ev.handler \in {"text_handler", "photo_handler"}
        /\ ev.storageFail
        /\ ~IsAdmin(ev.uid)) =>
           /\ ev.posts = <<>>
           /\ Delivered => ev.replies = <<Reply("unauthorized")>>
           /\ TablesUntouched

C13_Witness ==
    /\ ev.handler = "photo_handler"
    /\ ev.storageFail
    /\ ~IsAdmin(ev.uid)
    /\ HasRow(users, ev.uid)
    /\ ev.posts = <<>>
    /\ ev.replies = <<Reply("unauthorized")>>

\* the handler has called db.add_user / db.remove_user
Called ==
    /\ ev.handler \in {"add_user_handler", "remove_user_handler"}
    /\ IsAdmin(ev.uid)
    /\ Len(ev.args) = 1
    /\ ParseInt(ev.args[1]).ok

CalledAction ==
    IF ev.handler = "add_user_handler" THEN "add" ELSE "remove"

OtherRows(tbl, telegram_id) == {r \in tbl : r.telegram_id # telegram_id}

\* C14: a completed add_user/remove_user changes the row of its identity and
\* appends exactly one record of it to the audit log, as one step; a call
\* that raises at any of its statements leaves both tables as they were;
\* no other event adds a record.
C14_MutationAtomicWithRecord ==
    /\ (Called /\ ~ev.storageFail) =>
           /\ Len(logs) = Len(prev.logs) + 1
           /\ SubSeq(logs, 1, Len(prev.logs)) = prev.logs
           /\ logs[Len(logs)].telegram_id = Target
           /\ logs[Len(logs)].action = CalledAction
           /\ HasRow(users, Target) <=> CalledAction = "add"
           /\ OtherRows(users, Target) = OtherRows(prev.users, Target)
    /\ (Called /\ ev.storageFail) => TablesUntouched
    /\ (Handled /\ ~Called) => TablesUntouched

C14_Witness ==
    /\ Called
    /\ ev.handler = "add_user_handler"
    /\ ev.fault = "logs"
    /\ ~HasRow(users, Target)
    /\ LastReply = Reply("add_failed")
    /\ TablesUntouched

\* C15: the audit log is append-only: every step leaves the records the log
\* held in place and unchanged, so the log of an earlier state is a prefix
\* of the log of every later state.
C15_LogAppendOnly ==
    [][/\ Len(logs') >= Len(logs)
       /\ SubSeq(logs', 1, Len(logs)) = logs]_vars

C15_Witness ==
    /\ Len(logs) = 2
    /\ logs[1].action = "add"
    /\ logs[2].action = "remove"
    /\ logs[1].telegram_id = logs[2].telegram_id
    /\ prev.logs = <<logs[1]>>

\* something failed while the update was handled: a DB method raised, a
\* send was refused, a Telegram call of photo_handler raised, or the
\* completion call timed out, broke or was answered with an error status
Failed ==
    \/ ev.storageFail
    \/ ev.sendFail
    \/ ev.fault # "none"
    \/ ev.upstream.kind \in {"timeout", "neterror"}
    \/ ev.upstream.kind = "response" /\ ev.upstream.status # 200

\* C16: a failure while an update is handled ends in a reply or an error
\* record (an exception that leaves the handler is logged by
\* error_handler), and the dispatcher goes on: it takes the next update and
\* is then ready to run a handler again.
C16_FailureContained ==
    /\ (Handled /\ Failed) =>
           /\ ev.replies # <<>> \/ ev.logged # {}
           /\ ENABLED NextUpdate
    /\ ev.escaped # "none" => "unhandled" \in ev.logged
    /\ Idle => ENABLED MyIdHandler

\* Telegram refuses the replies of an /add that has committed
C16_Witness ==
    /\ ev.handler = "add_user_handler"
    /\ ev.sendFail
    /\ ~ev.storageFail
    /\ ev.escaped = "NetworkError"
    /\ ev.replies = <<>>
    /\ ev.logged = {"handler", "unhandled"}
    /\ HasRow(users, Target)
    /\ ~HasRow(prev.users, Target)

\* C17: however the statements of add_user and remove_user calls running
\* side by side interleave, the committed tables are those the committed
\* calls give when run one after the other in commit order: the users table
\* has at most one row per identity and the logs table one record per
\* committed call, numbered in order.
C17_Serializable ==
    /\ users = tx.serial.users
    /\ logs = tx.serial.logs
    /\ \A i \in Callers : Cardinality({r \in users : r.telegram_id = i}) <= 1
    /\ \A k \in 1..Len(logs) : logs[k].id = k

\* an add_user holds the write lock with both statements run and not yet
\* committed while a remove_user of the same identity is connected
C17_Witness ==
    \E c, d \in Conns :
        /\ c # d
        /\ tx.lock = c
        /\ tx.conns[c].pc = "wrote_logs"
        /\ tx.conns[c].op = "add"
        /\ tx.conns[d].pc = "open"
        /\ tx.conns[d].op = "remove"
        /\ tx.conns[c].telegram_id = tx.conns[d].telegram_id
        /\ HasRow(tx.conns[c].users, tx.conns[c].telegram_id)
        /\ ~HasRow(users, tx.conns[c].telegram_id)

\* C18: every completion request, on the text path and on the image path,
\* carries temperature 1, reasoning_effort "high" and max_completion_tokens
\* 10000.
C18_RequestParameters ==
    \A k \in 1..Len(ev.posts) :
        /\ ev.posts[k].temperature = {1}
        /\ ev.posts[k].reasoning_effort = "high"
        /\ ev.posts[k].max_completion_tokens = 10000

\* the administrator's /add whose first word is an integer
AddCommand ==
    /\ ev.handler = "add_user_handler"
    /\ IsAdmin(ev.uid)
    /\ Len(ev.args) >= 1
    /\ ParseInt(ev.args[1]).ok

\* C19 as stated: the administrator's "/add <id>" and "/add <id> <name>"
\* both add the identity, the latter storing the name as the username.
C19_AddAcceptsOptionalName ==
    (AddCommand /\ Len(ev.args) \in {1, 2} /\ ~ev.storageFail) =>
        /\ HasRow(users, Target)
        /\ Len(ev.args) = 2 =>
              \E r \in users : r.telegram_id = Target /\ r.username = ev.args[2]

\* C19: the administrator's "/add <id>" adds the identity, a new row having
\* no username; "/add <id> <name>", like every /add that does not have
\* exactly one argument, is answered with the usage message and leaves both
\* tables as they were.
C19_AddTakesOneArgument ==
    /\ (AddCommand /\ Len(ev.args) = 1 /\ ~ev.storageFail) =>
           /\ HasRow(users, Target)
           /\ \A r \in users \ prev.users :
                 r.telegram_id = Target /\ r.username = NoName
    /\ (ev.handler = "add_user_handler" /\ IsAdmin(ev.uid)
          /\ Len(ev.args) # 1) =>
           /\ Delivered => ev.replies = <<Reply("usage")>>
           /\ TablesUntouched

\* "/add 2 bob" gets the usage message and 2 stays without a row
C19_Witness ==
    /\ AddCommand
    /\ ev.args = <<Str(2), NameToken>>
    /\ ev.replies = <<Reply("usage")>>
    /\ ~HasRow(users, 2)
    /\ TablesUntouched

\* C20 as stated: in every reachable state the users table has no row for
\* the administrator identity.
C20_NoAdminRow == ~HasRow(users, ADMIN_TELEGRAM_ID)

\* C20: the users table has a row for the administrator identity exactly
\* when the last committed add_user/remove_user on that identity was an
\* add_user; such a row appears only by the administrator's own /add of
\* the administrator identity, never at startup or by another handler.
C20_AdminRowOnlyByOwnAdd ==
    /\ HasRow(users, ADMIN_TELEGRAM_ID) <=> lastOp[ADMIN_TELEGRAM_ID] = "add"
    /\ (Handled /\ HasRow(users, ADMIN_TELEGRAM_ID)
          /\ ~HasRow(prev.users, ADMIN_TELEGRAM_ID)) =>
           /\ ev.handler = "add_user_handler"
           /\ IsAdmin(ev.uid)
           /\ Target = ADMIN_TELEGRAM_ID

\* the administrator has added the administrator identity
C20_Witness ==
    /\ ev.handler = "add_user_handler"
    /\ IsAdmin(ev.uid)
    /\ LastReply = TargetReply("added", ADMIN_TELEGRAM_ID)
    /\ HasRow(users, ADMIN_TELEGRAM_ID)
    /\ ~HasRow(prev.users, ADMIN_TELEGRAM_ID)

\* the mutation CalledAction of Target and its record are committed
Committed ==
    /\ Len(logs) = Len(prev.logs) + 1
    /\ SubSeq(logs, 1, Len(prev.logs)) = prev.logs
    /\ logs[Len(logs)].telegram_id = Target
    /\ logs[Len(logs)].action = CalledAction
    /\ HasRow(users, Target) <=> CalledAction = "add"

\* C21: a storage error in /add or /remove is not swallowed: the
\* confirmation ("added", "removed") is sent only when the mutation and its
\* record are committed, and when a storage call raises the reply is the
\* error message and nothing is committed.
C21_StorageErrorReported ==
    /\ (Handled /\ ReplyKinds \cap {"added", "removed"} # {}) =>
           /\ Called
           /\ ev.fault = "none"
           /\ Committed
    /\ (Called /\ ev.fault # "none") =>
           /\ TablesUntouched
           /\ "db" \in ev.logged
           /\ Delivered =>
                ev.replies = <<Reply(IF CalledAction = "add" THEN "add_failed"
                                     ELSE "remove_failed")>>

\* conn.commit() of a /remove of a member raises
C21_Witness ==
    /\ Called
    /\ ev.handler = "remove_user_handler"
    /\ ev.fault = "commit"
    /\ HasRow(users, Target)
    /\ ev.replies = <<Reply("remove_failed")>>

\* C22: when photo_handler has finished, on the success path or after a
\* failure between the download and the reply, the temporary file of the
\* photo is gone.
C22_TempFileDeleted ==
    (ev.handler = "photo_handler" /\ ev.pc = "done"
       /\ Len(ev.posts) = 1 /\ ev.fault \in {"none", "reply"}) =>
        ev.data \notin files

\* C23: no retries: a text or photo update posts at most one request to the
\* completion endpoint, and exactly one when the call was made, whatever
\* it ended in (an answer, an error status, a timeout, a body that does not
\* parse).
C23_NoRetry ==
    /\ Len(ev.posts) <= 1
    /\ ev.upstream # NoUpstream =>
          /\ ev.handler \in {"text_handler", "photo_handler"}
          /\ Len(ev.posts) = 1

\* a text message whose request timed out: one request, no second one
C23_Witness ==
    /\ ev.handler = "text_handler"
    /\ ev.upstream.kind = "timeout"
    /\ Len(ev.posts) = 1
    /\ LastReply.kind = "openai_error"

\* the identities the store knows of
StoredIds ==
    {r.telegram_id : r \in users}
      \cup {logs[k].telegram_id : k \in 1..Len(logs)}

\* the action of the latest logs record of an identity ("none": no record)
LatestAction(telegram_id) ==
    LET ks == {k \in 1..Len(logs) : logs[k].telegram_id = telegram_id}
    IN  IF ks = {} THEN "none"
        ELSE logs[CHOOSE k \in ks : \A m \in ks : m <= k].action

\* C24: the users table and the logs table agree: an identity has a users
\* row exactly when its latest logs record is an 'add'; an identity without
\* a record has no row.
C24_TableAgreesWithLog ==
    \A i \in StoredIds \cup Callers :
        HasRow(users, i) <=> LatestAction(i) = "add"

\* identity 2 removed while not a member, then added
C24_Witness ==
    /\ Len(logs) = 2
    /\ logs[1].telegram_id = 2 /\ logs[1].action = "remove"
    /\ logs[2].telegram_id = 2 /\ logs[2].action = "add"
    /\ HasRow(users, 2)

\* C25: a text message that equals one of the five keyboard button labels
\* is handled by keyboard_button_handler and never by text_handler, and
\* whoever sent it nothing is posted to the completion endpoint.
C25_ButtonLabelNeverRelayed ==
    /\ ev.handler = "text_handler" => ev.data \notin ButtonLabels
    /\ (ev.handler \in {"text_handler", "keyboard_button_handler"}
          /\ ev.data \in ButtonLabels) =>
           /\ ev.handler = "keyboard_button_handler"
           /\ ev.posts = <<>>
           /\ ev.upstream = NoUpstream
           /\ ReplyKinds \cap {"request_sent", "answer", "raw",
                               "openai_error"} = {}
    /\ Idle => \A label \in ButtonLabels :
                  Route(label) = "keyboard_button_handler"

\* a member sends the label of the list button: no reply, nothing posted
C25_Witness ==
    /\ ev.handler = "keyboard_button_handler"
    /\ ev.data = BTN_LIST
    /\ ~IsAdmin(ev.uid)
    /\ HasRow(users, ev.uid)
    /\ ev.replies = <<>>
    /\ ev.posts = <<>>

\* C26: photo_handler runs in progress side by side on photos with the
\* same file_unique_id do not interfere: a run that has downloaded has read
\* the whole image, and no run ends with the file missing under it
\* (FileNotFoundError), however the runs interleave.
C26_SameFileRunsIndependent ==
    \A r \in Runs :
        LET run == photo.runs[r]
        IN  /\ run.error # "FileNotFoundError"
            /\ run.read \in {"none", "complete"}
            /\ run.pc \in {"completion", "reply"} => run.read = "complete"

\* a run is about to unlink the file that another run of the same photo
\* has unlinked already
C26_Witness ==
    \E r, q \in Runs :
        /\ r # q
        /\ photo.runs[r].fid = photo.runs[q].fid
        /\ photo.runs[r].pc = "reply"
        /\ photo.runs[r].read = "complete"
        /\ photo.runs[q].pc = "done"
        /\ photo.runs[q].read = "complete"
        /\ photo.runs[q].error = "none"
        /\ photo.runs[r].fid \notin files

====
